---- MODULE Spec2Model ----
(***************************************************************************)
(* A model of stringslator.py: the C-source-style tokenizer of             *)
(* StringsFileEnumerator and the SQLite catalog kept by StringsDB.         *)
(*                                                                         *)
(* Text (file contents, paths, names, keys, values) is a sequence of       *)
(* one-character strings, so that the regular expression, str.strip, the   *)
(* os.path functions and SQL's LIKE and NOCASE are computed character by   *)
(* character as the code computes them.                                    *)
(***************************************************************************)
EXTENDS Integers, Sequences, FiniteSets, TLC

VARIABLES
    \* ---- the strings file parseStringsFileCSource is given
    fileBytes,      \* the bytes of the file
    enc,            \* what findFileEncoding returned, "none" before it has
    \* ---- processStringsFile on one strings file
    opened,         \* the strings file it opens
    processed,      \* what it yielded and whether it raised, <<>> before
    \* ---- parseStringsFileCSource, one findall iteration per step
    content,        \* the decoded text of the file (fp.read())
    pos,            \* where the regular expression resumes scanning (1-based)
    blockComment,   \* the local flag of parseStringsFileCSource
    yielded,        \* the pairs yielded so far, each with the span of its match
    lastCmnt,       \* history: the last comment token findall returned
    tstate,         \* "open" | "scan" | "done" | "raised"
    \* ---- the catalog and the command that runs on it
    db,             \* stringslator.db as committed
    tx,             \* the catalog as the open connection sees it
    pc,             \* "idle" (no process) | "add" | "raised" | "delete" |
                    \* "ask" | "done" (the command has returned)
    cmd,            \* the command that runs or ran last
    argsRecursive,  \* args.recursive
    argPath,        \* the loop variable over args.path of cli_add, cli_delete
    Del,            \* cli_delete: Del
    delFiles,       \* cli_delete: delFiles
    log,            \* history: what the last apiAdd did, target by target,
                    \* and what every apiDelete of the command yielded
    answer,         \* history: the answer to the confirmation, if asked
    result          \* what a query returned

tokVars == <<fileBytes, enc, opened, processed, content, pos, blockComment, yielded, lastCmnt, tstate>>

catVars == <<db, tx, pc, cmd, argsRecursive, argPath, Del, delFiles, log,
             answer, result>>

vars == <<tokVars, catVars>>

-----------------------------------------------------------------------------
(* Bounds *)

\* the longest input of the tokenizer, in lexical items
MaxItems == 4

\* the most characters the key and the value of one clause hold together
MaxClauseLen == 4

\* the deepest nesting of dicts in a property list
MaxDepth == 2

-----------------------------------------------------------------------------
(* Text helpers *)

\* str.strip() and the regular expression's \s
isspace(c) == c \in {" ", "\t", "\n", "\r", "\f"}

RECURSIVE SkipSpace(_, _)
\* the first index >= i of s that holds no whitespace (Len(s)+1 if none)
SkipSpace(s, i) ==
    IF i > Len(s) THEN i
    ELSE IF isspace(s[i]) THEN SkipSpace(s, i + 1) ELSE i

RECURSIVE SkipSpaceBack(_, _)
\* the last index <= i of s that holds no whitespace (0 if none)
SkipSpaceBack(s, i) ==
    IF i < 1 THEN 0
    ELSE IF isspace(s[i]) THEN SkipSpaceBack(s, i - 1) ELSE i

strip(s) ==
    LET a == SkipSpace(s, 1)
        b == SkipSpaceBack(s, Len(s))
    IN  IF a > b THEN <<>> ELSE SubSeq(s, a, b)

startswith(s, prefix) ==
    /\ Len(prefix) <= Len(s)
    /\ SubSeq(s, 1, Len(prefix)) = prefix

\* s[i:i+2] == two
TwoAt(s, i, two) == i + 1 <= Len(s) /\ s[i] = two[1] /\ s[i + 1] = two[2]

RECURSIVE FirstOnLine(_, _, _)
\* the first index >= i of s holding c with no line break before it, else 0:
\* what a non-greedy run of '.' followed by the literal c can reach, since '.'
\* does not match a line break
FirstOnLine(s, i, c) ==
    IF i > Len(s) THEN 0
    ELSE IF s[i] = c THEN i
    ELSE IF s[i] = "\n" THEN 0
    ELSE FirstOnLine(s, i + 1, c)

-----------------------------------------------------------------------------
\* prog, the compiled pattern: an assignment (key, "=", value, ";", neither
\* spanning a line break, not where white space and a comment opener follow),
\* or a comment opener, or a comment closer

\* the negative lookahead fails at i: white space and a comment opener follow
LookaheadSeesOpener(s, i) == TwoAt(s, SkipSpace(s, i), <<"/", "*">>)

\* one attempt of the pattern at position i: the alternatives in their order
MatchAt(s, i) ==
    LET e1 == FirstOnLine(s, i, "=")
        e2 == IF e1 = 0 THEN 0 ELSE FirstOnLine(s, e1 + 1, ";")
    IN  IF ~LookaheadSeesOpener(s, i) /\ e1 # 0 /\ e2 # 0
        THEN [kind |-> "assign", start |-> i, next |-> e2 + 1,
              key |-> SubSeq(s, i, e1 - 1), val |-> SubSeq(s, e1 + 1, e2 - 1)]
        ELSE IF TwoAt(s, i, <<"/", "*">>)
        THEN [kind |-> "cmntA", start |-> i, next |-> i + 2,
              key |-> <<>>, val |-> <<>>]
        ELSE IF TwoAt(s, i, <<"*", "/">>)
        THEN [kind |-> "cmntB", start |-> i, next |-> i + 2,
              key |-> <<>>, val |-> <<>>]
        ELSE [kind |-> "none", start |-> i, next |-> i + 1,
              key |-> <<>>, val |-> <<>>]

RECURSIVE FindMatch(_, _)
\* the next match findall reports at or after position i: the leftmost one
FindMatch(s, i) ==
    IF i > Len(s)
    THEN [kind |-> "none", start |-> i, next |-> i, key |-> <<>>, val |-> <<>>]
    ELSE LET m == MatchAt(s, i)
         IN  IF m.kind # "none" THEN m ELSE FindMatch(s, i + 1)

-----------------------------------------------------------------------------
(* The loop body of parseStringsFileCSource *)

quotes == { <<"'", "'">>, <<"\"", "\"">> }

\* a tokenizer that forgets the flag
SuppressedNever(flag) == FALSE

\* an assignment is looked at only when the flag is clear (elif not blockComment)
Suppressed(flag) == flag

\* key.startswith("//"): continue
IsLineComment(key) == startswith(key, <<"/", "/">>)

\* x[0] + x[-1] raises IndexError on the empty string
IndexError(x) == Len(x) = 0

\* if x[0] + x[-1] in quotes: x = x[1:-1]
StripQuotes(x) ==
    IF <<x[1], x[Len(x)]>> \in quotes THEN SubSeq(x, 2, Len(x) - 1) ELSE x

\* One iteration of "for key, val, cmntA, cmntB in prog.findall(content)" from
\* the tokenizer state st = [pos, blockComment, yielded, lastCmnt, tstate];
\* branch names the path it took.
CSourceStep(s, st) ==
    LET m   == FindMatch(s, st.pos)
        key == strip(m.key)
        val == strip(m.val)
    IN  CASE m.kind = "none" ->
               [st EXCEPT !.tstate = "done", !.branch = "end"]
          [] m.kind = "cmntA" ->
               [st EXCEPT !.pos = m.next, !.blockComment = TRUE,
                          !.lastCmnt = "A", !.branch = "cmntA"]
          [] m.kind = "cmntB" ->
               [st EXCEPT !.pos = m.next, !.blockComment = FALSE,
                          !.lastCmnt = "B", !.branch = "cmntB"]
          [] OTHER ->
               IF Suppressed(st.blockComment)
               THEN [st EXCEPT !.pos = m.next, !.branch = "inComment"]
               ELSE IF IsLineComment(key)
               THEN [st EXCEPT !.pos = m.next, !.branch = "lineComment"]
               ELSE IF IndexError(key) \/ IndexError(val)
               THEN [st EXCEPT !.pos = m.next, !.tstate = "raised",
                               !.branch = "raise"]
               ELSE [st EXCEPT !.pos = m.next, !.branch = "yield",
                               !.yielded = Append(@,
                                   [key |-> StripQuotes(key),
                                    val |-> StripQuotes(val),
                                    start |-> m.start, end |-> m.next - 1])]

\* blockComment = False before the loop
CSourceStart ==
    [pos |-> 1, blockComment |-> FALSE, yielded |-> <<>>, lastCmnt |-> "none",
     tstate |-> "scan", branch |-> "start"]

RECURSIVE CSourceRun(_, _)
CSourceRun(s, st) ==
    IF st.tstate # "scan" THEN st ELSE CSourceRun(s, CSourceStep(s, st))

\* the whole generator: the pairs it yields and whether it raised
parseStringsFileCSource(s) ==
    LET st == CSourceRun(s, CSourceStart)
    IN  [pairs  |-> [i \in 1..Len(st.yielded) |->
                        <<st.yielded[i].key, st.yielded[i].val>>],
         raised |-> st.tstate = "raised"]

\* stringslator.db does not exist yet and no command runs
CatalogInit ==
    /\ db = [file |-> {}, comp |-> {}, lang |-> {}, trans |-> <<>>]
    /\ tx = [file |-> {}, comp |-> {}, lang |-> {}, trans |-> <<>>]
    /\ pc = "idle"
    /\ cmd = "none"
    /\ argsRecursive = FALSE
    /\ argPath = <<>>
    /\ Del = 0
    /\ delFiles = <<>>
    /\ log = <<>>
    /\ answer = "none"
    /\ result = <<>>

-----------------------------------------------------------------------------
(* The tokenizer, one findall match per step, on every input of at most    *)
(* MaxItems lexical items                                                  *)

QClause  == <<"\"", "k", "\"", " ", "=", " ", "\"", "v", "\"", ";">>
EmptyKey == <<" ", "=", "v", ";">>
EmptyVal == <<"k", "=", ";">>

Items == { <<"/", "*">>, <<"*", "/">>, <<"/", "/">>, <<"\n">>, <<" ">>,
           QClause, EmptyKey, EmptyVal }

RECURSIVE Flatten(_)
Flatten(items) ==
    IF items = <<>> THEN <<>> ELSE Head(items) \o Flatten(Tail(items))

RECURSIVE LexFrom(_, _, _)
\* The lexical structure of C-source text from index i in mode "code", "block"
\* or "line": the mode of every character ("/*" ... "*/" is a block comment,
\* "//" to the end of the line a line comment), and "stray" for a "*/" met
\* outside every comment.
LexFrom(s, i, mode) ==
    IF i > Len(s) THEN <<>>
    ELSE CASE mode = "code" /\ TwoAt(s, i, <<"/", "*">>) ->
                <<"block", "block">> \o LexFrom(s, i + 2, "block")
           [] mode = "code" /\ TwoAt(s, i, <<"/", "/">>) ->
                <<"line", "line">> \o LexFrom(s, i + 2, "line")
           [] mode = "code" /\ TwoAt(s, i, <<"*", "/">>) ->
                <<"stray", "stray">> \o LexFrom(s, i + 2, "code")
           [] mode = "block" /\ TwoAt(s, i, <<"*", "/">>) ->
                <<"block", "block">> \o LexFrom(s, i + 2, "code")
           [] mode = "line" /\ s[i] = "\n" ->
                <<"code">> \o LexFrom(s, i + 1, "code")
           [] OTHER -> <<mode>> \o LexFrom(s, i + 1, mode)

Lex(s) == LexFrom(s, 1, "code")

\* C-source-style text: comments, clauses and white space, no "*/" outside a
\* comment
WellFormed(s) == LET lex == Lex(s) IN \A i \in 1..Len(s) : lex[i] # "stray"

RECURSIVE ItemSeqs(_)
ItemSeqs(n) ==
    IF n = 0 THEN {<<>>}
    ELSE LET shorter == ItemSeqs(n - 1)
         IN  shorter \cup {Append(q, it) : q \in shorter, it \in Items}

Inputs == {s \in {Flatten(q) : q \in ItemSeqs(MaxItems)} : WellFormed(s)}

InitCSource ==
    /\ content \in Inputs
    /\ pos = CSourceStart.pos
    /\ blockComment = CSourceStart.blockComment
    /\ yielded = CSourceStart.yielded
    /\ lastCmnt = CSourceStart.lastCmnt
    /\ tstate = CSourceStart.tstate
    /\ fileBytes = <<>>
    /\ opened = <<>>
    /\ processed = <<>>
    /\ enc = "none"
    /\ CatalogInit

TokState ==
    [pos |-> pos, blockComment |-> blockComment, yielded |-> yielded,
     lastCmnt |-> lastCmnt, tstate |-> tstate, branch |-> "start"]

\* the tokenizer's variables after the iteration that leads to st
TokApply(st) ==
    /\ pos' = st.pos
    /\ blockComment' = st.blockComment
    /\ yielded' = st.yielded
    /\ lastCmnt' = st.lastCmnt
    /\ tstate' = st.tstate
    /\ UNCHANGED <<fileBytes, enc, opened, processed, content, catVars>>

\* if cmntA: blockComment = True
CmntA ==
    /\ tstate = "scan"
    /\ CSourceStep(content, TokState).branch = "cmntA"
    /\ TokApply(CSourceStep(content, TokState))

\* elif cmntB: blockComment = False
CmntB ==
    /\ tstate = "scan"
    /\ CSourceStep(content, TokState).branch = "cmntB"
    /\ TokApply(CSourceStep(content, TokState))

\* an assignment met while blockComment is set: nothing happens
AssignInComment ==
    /\ tstate = "scan"
    /\ CSourceStep(content, TokState).branch = "inComment"
    /\ TokApply(CSourceStep(content, TokState))

\* an assignment whose key starts with "//": continue
AssignLineComment ==
    /\ tstate = "scan"
    /\ CSourceStep(content, TokState).branch = "lineComment"
    /\ TokApply(CSourceStep(content, TokState))

\* key[0] or val[0] raises IndexError
AssignRaises ==
    /\ tstate = "scan"
    /\ CSourceStep(content, TokState).branch = "raise"
    /\ TokApply(CSourceStep(content, TokState))

\* yield key, val
AssignYields ==
    /\ tstate = "scan"
    /\ CSourceStep(content, TokState).branch = "yield"
    /\ TokApply(CSourceStep(content, TokState))

\* findall has no further match: the generator returns
EndOfContent ==
    /\ tstate = "scan"
    /\ CSourceStep(content, TokState).branch = "end"
    /\ TokApply(CSourceStep(content, TokState))

NextCSource ==
    \/ CmntA
    \/ CmntB
    \/ AssignInComment
    \/ AssignLineComment
    \/ AssignRaises
    \/ AssignYields
    \/ EndOfContent

SpecCSource == InitCSource /\ [][NextCSource]_vars

-----------------------------------------------------------------------------
(* Text as SQLite and os.path see it *)

UpperCase == <<"A", "B", "C", "D", "E", "F", "G", "H", "I", "J", "K", "L", "M",
               "N", "O", "P", "Q", "R", "S", "T", "U", "V", "W", "X", "Y", "Z">>
LowerCase == <<"a", "b", "c", "d", "e", "f", "g", "h", "i", "j", "k", "l", "m",
               "n", "o", "p", "q", "r", "s", "t", "u", "v", "w", "x", "y", "z">>
Digits    == <<"0", "1", "2", "3", "4", "5", "6", "7", "8", "9">>

\* the characters of the model in the order of their code points
CodePoints ==
    <<"\n", " ", "\"", "%", "'", "*", ".", "/">> \o Digits \o <<";", "=">>
    \o UpperCase \o <<"_">> \o LowerCase

IndexIn(seq, c) == CHOOSE i \in 1..Len(seq) : seq[i] = c
Occurs(seq, c) == \E i \in 1..Len(seq) : seq[i] = c

ord(c) == IndexIn(CodePoints, c)

\* NOCASE and LIKE fold the ASCII letters
fold(c) == IF Occurs(UpperCase, c) THEN LowerCase[IndexIn(UpperCase, c)] ELSE c

RECURSIVE LessNoCaseFrom(_, _, _)
LessNoCaseFrom(a, b, i) ==
    IF i > Len(b) THEN FALSE
    ELSE IF i > Len(a) THEN TRUE
    ELSE IF fold(a[i]) = fold(b[i]) THEN LessNoCaseFrom(a, b, i + 1)
    ELSE ord(fold(a[i])) < ord(fold(b[i]))

\* the descending order: b < a under COLLATE NOCASE
LessNoCaseDescending(a, b) == LessNoCaseFrom(b, a, 1)

\* a < b under COLLATE NOCASE
LessNoCase(a, b) == LessNoCaseFrom(a, b, 1)

RECURSIVE LessBinaryFrom(_, _, _)
LessBinaryFrom(a, b, i) ==
    IF i > Len(b) THEN FALSE
    ELSE IF i > Len(a) THEN TRUE
    ELSE IF a[i] = b[i] THEN LessBinaryFrom(a, b, i + 1)
    ELSE ord(a[i]) < ord(b[i])

\* a < b under the default collation (ORDER BY name)
LessBinary(a, b) == LessBinaryFrom(a, b, 1)

RECURSIVE LikeFrom(_, _, _, _)
\* text[j..] matches pattern[i..]: '%' is any run of characters, '_' any one
\* character, every other character matches itself without regard to case
LikeFrom(pattern, i, text, j) ==
    IF i > Len(pattern) THEN j > Len(text)
    ELSE IF pattern[i] = "%"
    THEN \E k \in j..(Len(text) + 1) : LikeFrom(pattern, i + 1, text, k)
    ELSE IF j > Len(text) THEN FALSE
    ELSE IF pattern[i] = "_" THEN LikeFrom(pattern, i + 1, text, j + 1)
    ELSE /\ fold(pattern[i]) = fold(text[j])
         /\ LikeFrom(pattern, i + 1, text, j + 1)

\* text LIKE pattern
Like(text, pattern) == LikeFrom(pattern, 1, text, 1)

\* str.isdigit()
isdigit(s) == Len(s) > 0 /\ \A i \in 1..Len(s) : Occurs(Digits, s[i])

RECURSIVE ToInt(_)
\* the integer SQLite compares a column of integer affinity with, for a text of
\* digits
ToInt(s) ==
    IF s = <<>> THEN 0
    ELSE 10 * ToInt(SubSeq(s, 1, Len(s) - 1)) + (IndexIn(Digits, s[Len(s)]) - 1)

RECURSIVE LastIndexOf(_, _, _)
\* the last index <= i of s that holds c, else 0
LastIndexOf(s, i, c) ==
    IF i < 1 THEN 0
    ELSE IF s[i] = c THEN i ELSE LastIndexOf(s, i - 1, c)

RECURSIVE normpath(_)
\* os.path.normpath on an absolute path without "." and "..": no trailing slash
normpath(path) ==
    IF Len(path) > 1 /\ path[Len(path)] = "/"
    THEN normpath(SubSeq(path, 1, Len(path) - 1))
    ELSE path

\* os.path.abspath of an absolute path
abspath(path) == normpath(path)

\* os.path.basename: what follows the last slash
basename(path) == SubSeq(path, LastIndexOf(path, Len(path), "/") + 1, Len(path))

\* os.path.join(a, b) for a relative b
join(a, b) == IF a[Len(a)] = "/" THEN a \o b ELSE a \o <<"/">> \o b

\* os.path.abspath(os.path.join(path, os.pardir))
pardir(path) ==
    LET p == normpath(path)
        k == LastIndexOf(p, Len(p), "/")
    IN  IF k <= 1 THEN <<"/">> ELSE SubSeq(p, 1, k - 1)

\* os.path.splitext(x): the extension starts at the last dot, unless the dot
\* leads the name
splitext(x) ==
    LET k == LastIndexOf(x, Len(x), ".")
    IN  IF k <= 1 THEN [f |-> x, e |-> <<>>]
        ELSE [f |-> SubSeq(x, 1, k - 1), e |-> SubSeq(x, k, Len(x))]

endswith(s, suffix) ==
    /\ Len(suffix) <= Len(s)
    /\ SubSeq(s, Len(s) - Len(suffix) + 1, Len(s)) = suffix

-----------------------------------------------------------------------------
(* The file system the program reads: application bundles under /p and /q  *)

Contents  == <<"C", "o", "n", "t", "e", "n", "t", "s">>
Resources == <<"R", "e", "s", "o", "u", "r", "c", "e", "s">>
lproj     == <<"l", "p", "r", "o", "j">>
strings   == <<"s", "t", "r", "i", "n", "g", "s">>

en == <<"e", "n">>
de == <<"d", "e">>
fr == <<"f", "r">>
Tooltips == <<"T", "o", "o", "l", "t", "i", "p", "s">>
Main == <<"M", "a", "i", "n">>
Menu == <<"M", "e", "n", "u">>
key1 == <<"k", "e", "y", "1">>

\* a strings file in the C-source style: plistlib.load raises
\* InvalidFileException on it
Text(chars) == [kind |-> "text", text |-> chars, plist |-> <<>>]
\* a strings file that is a property list: a sequence of [key, val], val a
\* string ([text |-> ...]) or a nested dict ([dict |-> ...])
Plist(entries) == [kind |-> "plist", text |-> <<>>, plist |-> entries]
\* a strings file on which plistlib.load raises another exception than
\* InvalidFileException: a property list that is not well-formed
Malformed == [kind |-> "malformed", text |-> <<>>, plist |-> <<>>]

Assign(key, val) ==
    <<"\"">> \o key \o <<"\"", " ", "=", " ", "\"">> \o val \o <<"\"", ";">>

\* every bundle: its directory and, in the order os.listdir returns them, its
\* locale directories with their strings files
Bundles == <<
    \* en.lproj and de.lproj, each with Tooltips.strings holding key1
    [dir |-> <<"/", "p", "/", "a", "b">>,
     locales |-> <<
        [name |-> en, files |-> <<[name |-> Tooltips,
                                   file |-> Text(Assign(key1, <<"A">>))]>>],
        [name |-> de, files |-> <<[name |-> Tooltips,
                                   file |-> Text(Assign(key1, <<"B">>))]>>]>>],
    \* two locales: two components that hold the same key, one of them a
    \* property list, in the one, and an empty strings file in the other
    [dir |-> <<"/", "p", "/", "a", "_">>,
     locales |-> <<
        [name |-> fr, files |-> <<[name |-> Main, file |-> Text(<<>>)]>>],
        [name |-> en, files |-> <<
            [name |-> Main, file |-> Text(Assign(<<"k">>, <<"v">>))],
            [name |-> Menu, file |-> Plist(<<[key |-> <<"k">>,
                                              val |-> [text |-> <<"y">>]]>>)]>>]
        >>],
    \* two locales, the second strings file with a clause whose key is empty
    [dir |-> <<"/", "p", "/", "A", "B">>,
     locales |-> <<
        [name |-> en, files |-> <<[name |-> Main,
                                   file |-> Text(Assign(<<"k">>, <<"v">>))]>>],
        [name |-> de, files |-> <<[name |-> Main, file |-> Text(EmptyKey)]>>]>>],
    \* exactly one locale directory
    [dir |-> <<"/", "q", "/", "x">>,
     locales |-> <<
        [name |-> en, files |-> <<[name |-> Main,
                                   file |-> Text(Assign(<<"k">>, <<"v">>))]>>]>>]
    >>

BundleIds == 1..Len(Bundles)

withExt(name, ext) == name \o <<".">> \o ext

ResDir(b) == join(join(Bundles[b].dir, Contents), Resources)
LocaleDir(b, l) == join(ResDir(b), withExt(Bundles[b].locales[l].name, lproj))

\* os.path.exists, for the directories
exists(path) ==
    \E b \in BundleIds :
        \/ path \in {Bundles[b].dir, join(Bundles[b].dir, Contents), ResDir(b),
                     pardir(Bundles[b].dir), <<"/">>}
        \/ \E l \in 1..Len(Bundles[b].locales) : path = LocaleDir(b, l)

\* os.listdir of a Resources directory or of a locale directory
listdir(path) ==
    IF \E b \in BundleIds : path = ResDir(b)
    THEN LET b == CHOOSE b \in BundleIds : path = ResDir(b)
         IN  [l \in 1..Len(Bundles[b].locales) |->
                 withExt(Bundles[b].locales[l].name, lproj)]
             \o <<<<"I", "n", "f", "o", ".", "p", "l", "i", "s", "t">>>>
    ELSE LET b == CHOOSE b \in BundleIds :
                     \E l \in 1..Len(Bundles[b].locales) : path = LocaleDir(b, l)
             l == CHOOSE l \in 1..Len(Bundles[b].locales) : path = LocaleDir(b, l)
             files == Bundles[b].locales[l].files
         IN  [f \in 1..Len(files) |-> withExt(files[f].name, strings)]

\* open(stringsFile, 'rb')
readfile(path) ==
    LET b == CHOOSE b \in BundleIds :
                 \E l \in 1..Len(Bundles[b].locales) :
                     pardir(path) = LocaleDir(b, l)
        l == CHOOSE l \in 1..Len(Bundles[b].locales) :
                 pardir(path) = LocaleDir(b, l)
        files == Bundles[b].locales[l].files
        f == CHOOSE f \in 1..Len(files) :
                 basename(path) = withExt(files[f].name, strings)
    IN  files[f].file

-----------------------------------------------------------------------------
(* StringsFileEnumerator: the walk and the parsers *)

\* resourcesPathForPath: <<>> stands for None
resourcesPathForPath(path) ==
    LET actual  == basename(normpath(path))
        newPath == IF actual = Resources THEN path
                   ELSE IF actual = Contents THEN join(path, Resources)
                   ELSE join(join(path, Contents), Resources)
    IN  IF exists(normpath(newPath)) THEN newPath ELSE <<>>

RECURSIVE appDirWalk(_)
appDirWalk(parent) ==
    IF basename(parent) \in {Contents, Resources}
    THEN appDirWalk(pardir(parent))
    ELSE parent

\* one step up from the Resources folder only
appDirOneUp(resPath) == pardir(normpath(resPath))

appDirForResourcePath(resPath) == appDirWalk(normpath(resPath))

RECURSIVE enumerateFrom(_, _, _, _)
enumerateFrom(resPath, extension, names, i) ==
    IF i > Len(names) THEN <<>>
    ELSE LET x == splitext(names[i])
         IN  (IF endswith(x.e, extension)
              THEN <<[f |-> x.f, path |-> join(resPath, names[i])]>>
              ELSE <<>>)
             \o enumerateFrom(resPath, extension, names, i + 1)

\* enumerateWithExt: (name without extension, full path) of the entries of
\* resPath whose extension ends with the given one
enumerateWithExt(resPath, extension) ==
    enumerateFrom(resPath, extension, listdir(resPath), 1)

RECURSIVE parseStringsFileXML(_, _)
\* the pairs of a (nested) dict, nested keys joined to their prefix by a dot
parseStringsFileXML(xml, prefix) ==
    IF xml = <<>> THEN <<>>
    ELSE LET e   == Head(xml)
             key == IF Len(prefix) > 0 THEN prefix \o <<".">> \o e.key ELSE e.key
         IN  (IF "dict" \in DOMAIN e.val
              THEN parseStringsFileXML(e.val.dict, key)
              ELSE <<<<key, e.val.text>>>>)
             \o parseStringsFileXML(Tail(xml), prefix)

\* processStringsFile with except Exception in place of
\* except plistlib.InvalidFileException: the tokenizer after any failure
processOpenedAnyFailure(fp) ==
    IF fp.kind = "plist"
    THEN [pairs |-> parseStringsFileXML(fp.plist, <<>>), raised |-> FALSE,
          tokenizer |-> FALSE]
    ELSE [pairs |-> parseStringsFileCSource(fp.text).pairs,
          raised |-> parseStringsFileCSource(fp.text).raised,
          tokenizer |-> TRUE]

\* processStringsFile on the opened file fp: the pairs of the property list
\* if plistlib.load loads it; its exception if it raises another than
\* InvalidFileException; else the C-source tokenizer, whose exception is
\* raised again. tokenizer tells whether parseStringsFileCSource was run.
processOpened(fp) ==
    CASE fp.kind = "plist" ->
            [pairs |-> parseStringsFileXML(fp.plist, <<>>), raised |-> FALSE,
             tokenizer |-> FALSE]
      [] fp.kind = "malformed" ->
            [pairs |-> <<>>, raised |-> TRUE, tokenizer |-> FALSE]
      [] OTHER ->
            [pairs |-> parseStringsFileCSource(fp.text).pairs,
             raised |-> parseStringsFileCSource(fp.text).raised,
             tokenizer |-> TRUE]

\* processStringsFile: with open(stringsFile, 'rb') as fp
processStringsFile(stringsFile) == processOpened(readfile(stringsFile))

-----------------------------------------------------------------------------
(* StringsDB: the four tables and the statements on them                   *)
(* A catalog is [file, comp, lang, trans]: the rows of _file, _comp and     *)
(* _lang as sets, each row with its id, and the rows of _trans, which has   *)
(* no key of its own and whose rowid no statement reads, as a sequence in   *)
(* the order of their rowid.                                                *)

EmptyCatalog == [file |-> {}, comp |-> {}, lang |-> {}, trans |-> <<>>]

Max(S) == CHOOSE x \in S : \A y \in S : y <= x
Min(S) == CHOOSE x \in S : \A y \in S : x <= y

\* the rowid SQLite gives the next row of a table: one more than the largest
NextRowId(ids) == IF ids = {} THEN 1 ELSE Max(ids) + 1

\* a SELECT that finds no row whatever the table holds
fetchIdNever(cat, table, vals) == 0

\* fetchIdForTable: SELECT id FROM table WHERE col=? AND ...; fetchone().
\* 0 stands for None
fetchIdForTable(cat, table, vals) ==
    LET found == {r \in cat[table] : \A c \in DOMAIN vals : r[c] = vals[c]}
    IN  IF found = {} THEN 0 ELSE Min({r.id : r \in found})

\* insertIdIntoTable: INSERT INTO table(cols) VALUES (...); lastrowid
insertIdIntoTable(cat, table, vals) ==
    LET id == NextRowId({r.id : r \in cat[table]})
    IN  [cat |-> [cat EXCEPT ![table] = @ \cup {[id |-> id] @@ vals}],
         id |-> id, existing |-> FALSE]

\* insertOrReturnRowID: (row-id, didExistBeforeFlag)
insertOrReturnRowID(cat, table, vals) ==
    LET idn == fetchIdForTable(cat, table, vals)
    IN  IF idn = 0
        THEN insertIdIntoTable(cat, table, vals)
        ELSE [cat |-> cat, id |-> idn, existing |-> TRUE]

insertFile(cat, path, name) ==
    insertOrReturnRowID(cat, "file", [name |-> name, dir |-> path])

insertComponent(cat, f_id, comp) ==
    insertOrReturnRowID(cat, "comp", [fid |-> f_id, name |-> comp])

insertLang(cat, lang) ==
    insertOrReturnRowID(cat, "lang", [name |-> lang])

\* INSERT INTO _trans VALUES (?,?,?,?,?) for each of trns
executemany(cat, trns) == [cat EXCEPT !.trans = @ \o trns]

\* fetchFile: the row (id, name, dir), or <<>> for None
fetchFile(cat, f_id) ==
    LET found == {r \in cat.file : r.id = f_id}
    IN  IF found = {} THEN <<>> ELSE CHOOSE r \in found : TRUE

RECURSIVE OrderByName(_, _)
\* ORDER BY name, COLLATE NOCASE or not: the rows in ascending order of their
\* name, rows of equal name in the order of their id
OrderByName(rows, nocase) ==
    IF rows = {} THEN <<>>
    ELSE LET less(a, b) == IF nocase THEN LessNoCase(a, b) ELSE LessBinary(a, b)
             least == {r \in rows : \A q \in rows : ~less(q.name, r.name)}
             first == CHOOSE r \in least : \A q \in least : r.id <= q.id
         IN  <<first>> \o OrderByName(rows \ {first}, nocase)

\* fetchComponents: (id, name) of the components of a file, ORDER BY name
fetchComponents(cat, f_id) ==
    LET sorted == OrderByName({r \in cat.comp : r.fid = f_id}, FALSE)
    IN  [i \in 1..Len(sorted) |-> <<sorted[i].id, sorted[i].name>>]

\* fetchCounts: [languages, translations, total] over GROUP BY lid
fetchCounts(cat, f_id) ==
    LET rows   == {i \in 1..Len(cat.trans) : cat.trans[i].fid = f_id}
        lids   == {cat.trans[i].lid : i \in rows}
        count(l) == Cardinality({i \in rows : cat.trans[i].lid = l})
    IN  <<Cardinality(lids),
          IF lids = {} THEN 0 ELSE Max({count(l) : l \in lids}),
          Cardinality(rows)>>

\* fetchFileFromComponent: fetchone()[0]; fetchone() is None when no component
\* has the id, and None[0] raises TypeError
fetchFileFromComponent(cat, c_id) ==
    LET found == {r \in cat.comp : r.id = c_id}
    IN  IF found = {} THEN [raised |-> TRUE, fid |-> 0]
        ELSE [raised |-> FALSE, fid |-> (CHOOSE r \in found : TRUE).fid]

\* apiInfo: (file, components, counts), <<>> standing for None
apiInfo(cat, f_id, isComponent) ==
    LET c    == IF isComponent THEN fetchFileFromComponent(cat, f_id)
                ELSE [raised |-> FALSE, fid |-> f_id]
        file == fetchFile(cat, c.fid)
    IN  IF c.raised THEN [raised |-> TRUE, file |-> <<>>, components |-> <<>>,
                          counts |-> <<>>]
        ELSE IF file = <<>>
        THEN [raised |-> FALSE, file |-> <<>>, components |-> <<>>,
              counts |-> <<>>]
        ELSE [raised |-> FALSE, file |-> file,
              components |-> fetchComponents(cat, c.fid),
              counts |-> fetchCounts(cat, c.fid)]

\* apiExport: (l.name, t.value) of the rows of the component with the key,
\* joined with their language, ORDER BY l.name COLLATE NOCASE
apiExport(cat, c_id, key) ==
    LET joined == {[id |-> il[1], name |-> il[2].name,
                    value |-> cat.trans[il[1]].value] :
                      il \in {tl \in (1..Len(cat.trans)) \X cat.lang :
                                 /\ tl[2].id = cat.trans[tl[1]].lid
                                 /\ cat.trans[tl[1]].cid = c_id
                                 /\ cat.trans[tl[1]].key = key}}
        sorted == OrderByName(joined, TRUE)
    IN  [i \in 1..Len(sorted) |-> <<sorted[i].name, sorted[i].value>>]

RECURSIVE OrderByKey(_)
\* ORDER BY key COLLATE NOCASE over the groups of GROUP BY key: the keys in
\* ascending order without regard to case, keys that differ in case only in
\* the order of the groups, which is the binary one
OrderByKey(keys) ==
    IF keys = {} THEN <<>>
    ELSE LET least == {k \in keys : \A q \in keys : ~LessNoCase(q, k)}
             first == CHOOSE k \in least : \A q \in least : ~LessBinary(q, k)
         IN  <<first>> \o OrderByKey(keys \ {first})

\* the results apiListTitles may return for the groups in the order ks: one
\* row per group, its cid that of any row of the group, cid being a bare
\* column of the GROUP BY, which SQLite takes from an arbitrary row
listTitlesOf(cat, f_id, ks) ==
    LET cids(k) == {cat.trans[i].cid : i \in {j \in 1..Len(cat.trans) :
                        cat.trans[j].fid = f_id /\ cat.trans[j].key = k}}
    IN  {[i \in 1..Len(ks) |-> <<pick[i], ks[i]>>] :
            pick \in {p \in [1..Len(ks) -> {r.id : r \in cat.comp}] :
                         \A i \in 1..Len(ks) : p[i] \in cids(ks[i])}}

\* apiListTitles: SELECT cid,key FROM _trans WHERE fid=? GROUP BY key
\* ORDER BY key COLLATE NOCASE; the set of the results it may return
apiListTitles(cat, f_id) ==
    listTitlesOf(cat, f_id,
                 OrderByKey({cat.trans[i].key : i \in {j \in 1..Len(cat.trans) :
                                                     cat.trans[j].fid = f_id}}))

RECURSIVE RowsAsSeq(_)
\* the rows of a SELECT without ORDER BY, in the order of their id
RowsAsSeq(rows) ==
    IF rows = {} THEN <<>>
    ELSE LET first == CHOOSE r \in rows : \A q \in rows : r.id <= q.id
         IN  <<first>> \o RowsAsSeq(rows \ {first})

\* fetchFileIdsWithPath: SELECT id, name FROM _file WHERE dir LIKE ?
fetchFileIdsWithPath(cat, path, recursive) ==
    LET abs     == abspath(path)
        pattern == IF recursive THEN abs \o <<"%">> ELSE abs
    IN  RowsAsSeq({r \in cat.file : Like(r.dir, pattern)})

\* the DELETE statements on _file and _trans without the one on _comp
deleteFileKeepsComponents(cat, f_id) ==
    [cat |-> [cat EXCEPT !.file = {r \in @ : r.id # f_id},
                         !.trans = SelectSeq(@, LAMBDA r : r.fid # f_id)],
     rowcount |-> Len(SelectSeq(cat.trans, LAMBDA r : r.fid = f_id))]

\* deleteFile without DELETE FROM _trans
deleteFileKeepsTranslations(cat, f_id) ==
    [cat |-> [cat EXCEPT !.file = {r \in @ : r.id # f_id},
                         !.comp = {r \in @ : r.fid # f_id}],
     rowcount |-> Len(SelectSeq(cat.trans, LAMBDA r : r.fid = f_id))]

\* deleteFile: the three DELETE statements; rowcount is that of the last one
deleteFile(cat, f_id) ==
    [cat |-> [cat EXCEPT !.file = {r \in @ : r.id # f_id},
                         !.comp = {r \in @ : r.fid # f_id},
                         !.trans = SelectSeq(@, LAMBDA r : r.fid # f_id)],
     rowcount |-> Len(SelectSeq(cat.trans, LAMBDA r : r.fid = f_id))]

\* self.db.commit(): what the connection wrote becomes the stored catalog
commit(committed, working) == working

\* a rollback that keeps what the connection wrote
rollbackKeepsWork(committed, working) == working

\* self.db.rollback(), or a close without commit: the stored catalog stays
rollback(committed, working) == committed

-----------------------------------------------------------------------------
(* Insert new application *)

RECURSIVE TagPairs(_, _, _, _)
\* translations.append([self.fid, c_id, l_id, key, val]) for each pair
TagPairs(fid, c_id, l_id, pairs) ==
    IF pairs = <<>> THEN <<>>
    ELSE <<[fid |-> fid, cid |-> c_id, lid |-> l_id,
            key |-> Head(pairs)[1], value |-> Head(pairs)[2]]>>
         \o TagPairs(fid, c_id, l_id, Tail(pairs))

\* the body of the inner loop of processResourcesFolder for one strings
\* file: languages.add(l_id), and the pairs of the file, parsed, appended;
\* c is what insertComponent returned
appendParsed(c, fid, l_id, languages, translations, parsed) ==
    [cat |-> c.cat,
     languages |-> languages \cup {l_id},
     translations |-> translations \o TagPairs(fid, c.id, l_id, parsed.pairs),
     raised |-> parsed.raised]

RECURSIVE walkStringsFiles(_, _, _, _, _)
\* the inner loop of processResourcesFolder over the strings files of one
\* locale; acc is [cat, languages, translations, raised]
walkStringsFiles(acc, fid, l_id, files, j) ==
    IF acc.raised \/ j > Len(files) THEN acc
    ELSE walkStringsFiles(
            appendParsed(insertComponent(acc.cat, fid, files[j].f), fid, l_id,
                         acc.languages, acc.translations,
                         processStringsFile(files[j].path)),
            fid, l_id, files, j + 1)

RECURSIVE walkLocales(_, _, _, _)
\* the outer loop of processResourcesFolder over the locale directories
walkLocales(acc, fid, locales, i) ==
    IF acc.raised \/ i > Len(locales) THEN acc
    ELSE LET l == insertLang(acc.cat, locales[i].f)
         IN  walkLocales(
                walkStringsFiles([acc EXCEPT !.cat = l.cat], fid, l.id,
                                 enumerateWithExt(locales[i].path, strings), 1),
                fid, locales, i + 1)

\* processResourcesFolder: (languages, translations), the rows it inserted on
\* the way, and whether a strings file raised
processResourcesFolder(cat, fid, resPath) ==
    walkLocales([cat |-> cat, languages |-> {}, translations |-> <<>>,
                 raised |-> FALSE],
                fid, enumerateWithExt(resPath, lproj), 1)

\* StringsFileEnumerator.__init__ once resPath is known: validPath, and with a
\* valid path appName and what insertFile returned
enumeratorFor(cat, resPath, appPath) ==
    IF resPath = <<>>
    THEN [validPath |-> FALSE, resPath |-> resPath, appPath |-> <<>>,
          cat |-> cat, fid |-> 0, existing |-> FALSE]
    ELSE LET f == insertFile(cat, appPath, basename(appPath))
         IN  [validPath |-> TRUE, resPath |-> resPath, appPath |-> appPath,
              cat |-> f.cat, fid |-> f.id, existing |-> f.existing]

\* StringsFileEnumerator(stringsDB, path).__init__ from resPath on
enumeratorAt(cat, resPath) ==
    enumeratorFor(cat, resPath, appDirForResourcePath(resPath))

\* StringsFileEnumerator(stringsDB, path)
StringsFileEnumerator(cat, path) ==
    enumeratorAt(cat, resourcesPathForPath(path))

\* len(trns) > 0, whatever the number of languages
WorthKeepingAnyLanguages(langs, trns) == Len(trns) > 0

\* len(trns) > 0 and len(langs) > 1
WorthKeeping(langs, trns) == Len(trns) > 0 /\ Cardinality(langs) > 1

\* insertResourceIntoDB after processResourcesFolder returned r, or raised:
\* executemany and commit, or rollback
insertParsed(conn, path, sfe, r) ==
    IF r.raised
    THEN [db |-> conn.db, tx |-> r.cat, outcome |-> "raised",
          path |-> path, dir |-> sfe.appPath, fid |-> sfe.fid]
    ELSE IF WorthKeeping(r.languages, r.translations)
    THEN [db |-> commit(conn.db, executemany(r.cat, r.translations)),
          tx |-> commit(conn.db, executemany(r.cat, r.translations)),
          outcome |-> "added",
          path |-> path, dir |-> sfe.appPath, fid |-> sfe.fid]
    ELSE [db |-> conn.db, tx |-> rollback(conn.db, r.cat),
          outcome |-> "ignored",
          path |-> path, dir |-> sfe.appPath, fid |-> sfe.fid]

\* insertResourceIntoDB with its enumerator sfe constructed
insertEnumerated(conn, path, sfe) ==
    IF ~sfe.validPath
    THEN [db |-> conn.db, tx |-> conn.tx, outcome |-> "no resources",
          path |-> path, dir |-> <<>>, fid |-> 0]
    ELSE IF sfe.existing
    THEN [db |-> conn.db, tx |-> conn.tx, outcome |-> "skip existing",
          path |-> path, dir |-> sfe.appPath, fid |-> sfe.fid]
    ELSE insertParsed(conn, path, sfe,
                      processResourcesFolder(sfe.cat, sfe.fid, sfe.resPath))

\* insertResourceIntoDB on the connection conn = [db, tx]: db is the committed
\* catalog, tx the catalog as the connection sees it
insertResourceIntoDB(conn, path) ==
    insertEnumerated(conn, path, StringsFileEnumerator(conn.tx, path))

\* enumerateResourcePaths: the path itself, or with recursive the Contents
\* directories at or below it that hold a Resources directory, in the order
\* of os.walk
enumerateResourcePaths(anyPath, recursive) ==
    IF recursive
    THEN LET below(b) == \/ join(Bundles[b].dir, Contents) = anyPath
                         \/ startswith(join(Bundles[b].dir, Contents),
                                       join(anyPath, <<>>))
             pick[b \in 0..Len(Bundles)] ==
                 IF b = 0 THEN <<>>
                 ELSE pick[b - 1] \o (IF below(b)
                                      THEN <<join(Bundles[b].dir, Contents)>>
                                      ELSE <<>>)
         IN  pick[Len(Bundles)]
    ELSE <<anyPath>>

\* the body of the loop of apiAdd: r is what insertResourceIntoDB did
addStep(acc, r) ==
    [db |-> r.db, tx |-> r.tx,
     log |-> Append(acc.log, [outcome |-> r.outcome, path |-> r.path,
                              dir |-> r.dir, fid |-> r.fid]),
     raised |-> r.outcome = "raised"]

RECURSIVE addEach(_, _, _)
\* the loop of apiAdd; acc is [db, tx, log, raised]
addEach(acc, resPaths, i) ==
    IF acc.raised \/ i > Len(resPaths) THEN acc
    ELSE addEach(addStep(acc, insertResourceIntoDB([db |-> acc.db,
                                                    tx |-> acc.tx],
                                                   resPaths[i])),
                 resPaths, i + 1)

\* apiAdd
apiAdd(conn, path, recursive) ==
    addEach([db |-> conn.db, tx |-> conn.tx, log |-> <<>>, raised |-> FALSE],
            enumerateResourcePaths(path, recursive), 1)

-----------------------------------------------------------------------------
(* Delete application *)

RECURSIVE deleteEach(_, _, _)
\* the loop of apiDelete over the rows fetchFileIdsWithPath returned; acc is
\* [cat, yields]
deleteEach(acc, rows, i) ==
    IF i > Len(rows) THEN acc
    ELSE LET d == deleteFile(acc.cat, rows[i].id)
         IN  deleteEach([cat |-> d.cat,
                         yields |-> Append(acc.yields,
                                           [changes |-> d.rowcount,
                                            name |-> rows[i].name,
                                            fid |-> rows[i].id])],
                        rows, i + 1)

\* apiDelete: the (changes, name) it yields, each with the id it deleted
apiDelete(cat, idOrPath, recursive) ==
    IF isdigit(idOrPath)
    THEN LET file == fetchFile(cat, ToInt(idOrPath))
         IN  IF file = <<>> THEN [cat |-> cat, yields |-> <<>>]
             ELSE deleteEach([cat |-> cat, yields |-> <<>>], <<file>>, 1)
    ELSE deleteEach([cat |-> cat, yields |-> <<>>],
                    fetchFileIdsWithPath(cat, idOrPath, recursive), 1)

RECURSIVE SumChanges(_)
SumChanges(yields) ==
    IF yields = <<>> THEN 0 ELSE Head(yields).changes + SumChanges(Tail(yields))

-----------------------------------------------------------------------------
(* The commands, on the catalog *)

NotFound == <<"/", "q", "/", "z">>

\* the paths given to add
AddPaths ==
    {Bundles[b].dir : b \in BundleIds}
    \cup {join(Bundles[1].dir, Contents), ResDir(1), NotFound, <<"/", "p">>}

\* the ids and paths given to delete
DeleteArgs ==
    {<<"1">>, <<"2">>}
    \cup {Bundles[b].dir : b \in 1..2}
    \cup {<<"/", "p">>}

\* the ids given to info and export, and the keys given to export
QueryIds == 1..2
QueryKeys == {key1, <<"k">>}

\* no tokenizer runs on its own while the catalog is modelled
TokIdle ==
    /\ fileBytes = <<>>
    /\ opened = <<>>
    /\ processed = <<>>
    /\ enc = "none"
    /\ content = <<>>
    /\ pos = 1
    /\ blockComment = FALSE
    /\ yielded = <<>>
    /\ lastCmnt = "none"
    /\ tstate = "done"

Init == CatalogInit /\ TokIdle

\* StringsDB(): connect, createTablesIfNeeded
Connect(command, rec) ==
    /\ pc = "idle"
    /\ cmd' = command
    /\ argsRecursive' = rec
    /\ answer' = "none"
    /\ UNCHANGED <<tokVars>>

\* cli_add: sdb.apiAdd(path, args.recursive) has returned r, or raised
Added(r) ==
    /\ db' = r.db
    /\ tx' = r.tx
    /\ log' = r.log
    /\ pc' = IF r.raised THEN "raised" ELSE "add"
    /\ UNCHANGED <<Del, delFiles, result>>

\* cli_add: sdb = StringsDB(), and apiAdd for the first path
StartAdd ==
    /\ \E rec \in BOOLEAN : Connect("add", rec)
    /\ \E path \in AddPaths :
        /\ argPath' = path
        /\ Added(apiAdd([db |-> db, tx |-> db], path, argsRecursive'))

\* cli_add: apiAdd for the next path
AddPath ==
    /\ pc = "add"
    /\ UNCHANGED <<cmd, argsRecursive, answer, tokVars>>
    /\ \E path \in AddPaths :
        /\ argPath' = path
        /\ Added(apiAdd([db |-> db, tx |-> tx], path, argsRecursive'))

\* the command returns and StringsDB.__del__ runs: commit, close
Return ==
    /\ db' = commit(db, tx)
    /\ tx' = commit(db, tx)
    /\ pc' = "done"
    /\ UNCHANGED <<cmd, argsRecursive, argPath, Del, delFiles, log,
                   result, tokVars>>

\* cli_add returns after its last path
AddReturn ==
    /\ pc = "add"
    /\ Return
    /\ UNCHANGED answer

\* An exception left cli_add. The StringsDB is still referenced by the
\* traceback when the interpreter exits; if its __del__ is run, it commits
\* what the connection has inserted so far.
ExitWithDel ==
    /\ pc = "raised"
    /\ Return
    /\ UNCHANGED answer

\* __del__ is not guaranteed to run for objects alive at interpreter exit:
\* the connection is then closed without a commit
ExitWithoutDel ==
    /\ pc = "raised"
    /\ db' = rollback(db, tx)
    /\ tx' = rollback(db, tx)
    /\ pc' = "done"
    /\ UNCHANGED <<cmd, argsRecursive, argPath, Del, delFiles, log,
                   answer, result, tokVars>>

\* cli_delete: the loop body for one path, over all that apiDelete yields
DeleteOne(cat, arg) ==
    LET r == apiDelete(cat, arg, argsRecursive')
    IN  /\ tx' = r.cat
        /\ Del' = (IF pc = "idle" THEN 0 ELSE Del) + SumChanges(r.yields)
        /\ delFiles' = (IF pc = "idle" THEN <<>> ELSE delFiles)
                       \o [i \in 1..Len(r.yields) |-> r.yields[i].name]
        /\ log' = (IF pc = "idle" THEN <<>> ELSE log) \o r.yields
        /\ pc' = "delete"
        /\ argPath' = arg
        /\ UNCHANGED <<db, result>>

\* cli_delete: sdb = StringsDB(), and the loop body for the first path
StartDelete ==
    /\ \E rec \in BOOLEAN : Connect("delete", rec)
    /\ \E arg \in DeleteArgs : DeleteOne(db, arg)

\* cli_delete: the loop body for the next path
DeletePath ==
    /\ pc = "delete"
    /\ UNCHANGED <<cmd, argsRecursive, answer, tokVars>>
    /\ \E arg \in DeleteArgs : DeleteOne(tx, arg)

\* if len(delFiles) == 0 or Del == 0: print("Nothing to do."); return
NothingToDo(files, n) == Len(files) = 0 \/ n = 0

DeleteNothingToDo ==
    /\ pc = "delete"
    /\ NothingToDo(delFiles, Del)
    /\ answer' = "nothing to do"
    /\ Return

\* printDeletingFiles, and the question is put
DeleteAsk ==
    /\ pc = "delete"
    /\ ~NothingToDo(delFiles, Del)
    /\ pc' = "ask"
    /\ UNCHANGED <<db, tx, cmd, argsRecursive, argPath, Del, delFiles, log,
                   answer, result, tokVars>>

\* the user answers yes: cli_delete returns
AnswerYes ==
    /\ pc = "ask"
    /\ answer' = "yes"
    /\ Return

\* the user answers no: sdb.db.rollback(), and cli_delete returns
AnswerNo ==
    /\ pc = "ask"
    /\ answer' = "no"
    /\ db' = commit(db, rollback(db, tx))
    /\ tx' = commit(db, rollback(db, tx))
    /\ pc' = "done"
    /\ UNCHANGED <<cmd, argsRecursive, argPath, Del, delFiles, log,
                   result, tokVars>>

\* cli_info, from sdb = StringsDB() to its return
Info ==
    /\ Connect("info", FALSE)
    /\ \E id \in QueryIds, isComponent \in BOOLEAN :
        result' = [id |-> id, isComponent |-> isComponent,
                   info |-> apiInfo(db, id, isComponent)]
    /\ pc' = "done"
    /\ UNCHANGED <<db, tx, argPath, Del, delFiles, log>>

\* cli_export, from sdb = StringsDB() to its return
Export ==
    /\ Connect("export", FALSE)
    /\ \E c_id \in QueryIds, key \in QueryKeys :
        result' = [id |-> c_id, key |-> key, rows |-> apiExport(db, c_id, key)]
    /\ pc' = "done"
    /\ UNCHANGED <<db, tx, argPath, Del, delFiles, log>>

\* cli_list -k, from sdb = StringsDB() to its return
ListTitles ==
    /\ Connect("list", FALSE)
    /\ \E f_id \in QueryIds :
        \E titles \in apiListTitles(db, f_id) :
            result' = [id |-> f_id, titles |-> titles]
    /\ pc' = "done"
    /\ UNCHANGED <<db, tx, argPath, Del, delFiles, log>>

\* the process is gone: nothing of it is left but stringslator.db
Exit ==
    /\ pc = "done"
    /\ pc' = "idle"
    /\ cmd' = "none"
    /\ argsRecursive' = FALSE
    /\ argPath' = <<>>
    /\ Del' = 0
    /\ delFiles' = <<>>
    /\ log' = <<>>
    /\ answer' = "none"
    /\ result' = <<>>
    /\ UNCHANGED <<db, tx, tokVars>>

Next ==
    \/ StartAdd
    \/ AddPath
    \/ AddReturn
    \/ ExitWithDel
    \/ ExitWithoutDel
    \/ StartDelete
    \/ DeletePath
    \/ DeleteNothingToDo
    \/ DeleteAsk
    \/ AnswerYes
    \/ AnswerNo
    \/ Info
    \/ Export
    \/ ListTitles
    \/ Exit

Spec == Init /\ [][Next]_vars

-----------------------------------------------------------------------------
(* The tokenizer on one clause, key=value; with every key and value of     *)
(* quotes, letters and blanks that hold at most MaxClauseLen characters     *)
(* together                                                                 *)

ClauseChars == {"\"", "'", "a", " "}

RECURSIVE CharSeqs(_)
\* the texts of at most n characters
CharSeqs(n) ==
    IF n = 0 THEN {<<>>}
    ELSE LET shorter == CharSeqs(n - 1)
         IN  shorter \cup {Append(q, c) : q \in shorter, c \in ClauseChars}

\* the file content key=value;
ClauseText(key, val) == key \o <<"=">> \o val \o <<";">>

ClauseInputs ==
    {ClauseText(kv[1], kv[2]) :
        kv \in {q \in CharSeqs(MaxClauseLen) \X CharSeqs(MaxClauseLen) :
                   Len(q[1]) + Len(q[2]) <= MaxClauseLen}}

InitClause ==
    /\ content \in ClauseInputs
    /\ pos = CSourceStart.pos
    /\ blockComment = CSourceStart.blockComment
    /\ yielded = CSourceStart.yielded
    /\ lastCmnt = CSourceStart.lastCmnt
    /\ tstate = CSourceStart.tstate
    /\ fileBytes = <<>>
    /\ opened = <<>>
    /\ processed = <<>>
    /\ enc = "none"
    /\ CatalogInit

NextClause ==
    \/ AssignRaises
    \/ AssignYields
    \/ EndOfContent

SpecClause == InitClause /\ [][NextClause]_vars

-----------------------------------------------------------------------------
(* findFileEncoding, on every file of at most HeaderLen bytes               *)

\* fp.read(4)
HeaderLen == 4

\* codecs.BOM_UTF32_BE, BOM_UTF32_LE, BOM_UTF16_BE, BOM_UTF16_LE, BOM_UTF8 in
\* the order of the loop, a byte being a number
BOMSShortFirst ==
    <<[bom |-> <<254, 255>>, encoding |-> "utf-16-be"],
      [bom |-> <<255, 254>>, encoding |-> "utf-16-le"],
      [bom |-> <<0, 0, 254, 255>>, encoding |-> "utf-32-be"],
      [bom |-> <<255, 254, 0, 0>>, encoding |-> "utf-32-le"],
      [bom |-> <<239, 187, 191>>, encoding |-> "utf-8"]>>

BOMS ==
    <<[bom |-> <<0, 0, 254, 255>>, encoding |-> "utf-32-be"],
      [bom |-> <<255, 254, 0, 0>>, encoding |-> "utf-32-le"],
      [bom |-> <<254, 255>>, encoding |-> "utf-16-be"],
      [bom |-> <<255, 254>>, encoding |-> "utf-16-le"],
      [bom |-> <<239, 187, 191>>, encoding |-> "utf-8"]>>

\* header = fp.read(4)
Header(bytes) == SubSeq(bytes, 1, IF Len(bytes) < HeaderLen THEN Len(bytes)
                                  ELSE HeaderLen)

RECURSIVE encodingFrom(_, _)
\* the for loop from its i-th pair on: break on the first mark the header
\* starts with; when none does, encoding is that of the last pair
encodingFrom(header, i) ==
    IF i > Len(BOMS) THEN BOMS[Len(BOMS)].encoding
    ELSE IF startswith(header, BOMS[i].bom) THEN BOMS[i].encoding
    ELSE encodingFrom(header, i + 1)

findFileEncoding(bytes) == encodingFrom(Header(bytes), 1)

\* the bytes the marks are made of, and a letter
HeaderBytes == {0, 254, 255, 239, 187, 191, 65}

RECURSIVE ByteSeqs(_)
ByteSeqs(n) ==
    IF n = 0 THEN {<<>>}
    ELSE LET shorter == ByteSeqs(n - 1)
         IN  shorter \cup {Append(q, b) : q \in shorter, b \in HeaderBytes}

InitEncoding ==
    /\ fileBytes \in ByteSeqs(HeaderLen)
    /\ enc = "none"
    /\ opened = <<>>
    /\ processed = <<>>
    /\ content = <<>>
    /\ pos = CSourceStart.pos
    /\ blockComment = CSourceStart.blockComment
    /\ yielded = CSourceStart.yielded
    /\ lastCmnt = CSourceStart.lastCmnt
    /\ tstate = "open"
    /\ CatalogInit

\* enc = self.findFileEncoding(filePath)
FindEncoding ==
    /\ tstate = "open"
    /\ enc = "none"
    /\ enc' = findFileEncoding(fileBytes)
    /\ UNCHANGED <<fileBytes, opened, processed, content, pos, blockComment,
                   yielded, lastCmnt, tstate, catVars>>

NextEncoding == FindEncoding

SpecEncoding == InitEncoding /\ [][NextEncoding]_vars

-----------------------------------------------------------------------------
(* parseStringsFileCSource from the bytes of the file: findFileEncoding,    *)
(* open(filePath, 'r', encoding=enc) and fp.read(), then the tokenizer      *)

\* the code points of the ASCII characters the files of the model hold
AsciiCode ==
    ("\n" :> 10) @@ (" " :> 32) @@ ("\"" :> 34) @@ ("'" :> 39) @@ (";" :> 59)
    @@ ("=" :> 61) @@ ("a" :> 97) @@ ("k" :> 107) @@ ("v" :> 118)

\* the one character U+FEFF, which str.strip does not strip
ZWNBSP == "<U+FEFF>"

\* the character with code point n
chr(n) ==
    IF \E c \in DOMAIN AsciiCode : AsciiCode[c] = n
    THEN CHOOSE c \in DOMAIN AsciiCode : AsciiCode[c] = n
    ELSE IF n = 65279 THEN ZWNBSP
    ELSE "<U+" \o ToString(n) \o ">"

RECURSIVE decodeUtf8From(_, _)
\* the utf-8 codec from byte i on: [raised, text]. It leaves a mark at the
\* start in the text as U+FEFF. Of the multi-byte sequences only that of
\* U+FEFF is decoded; the files of the model hold no other.
decodeUtf8From(bytes, i) ==
    IF i > Len(bytes) THEN [raised |-> FALSE, text |-> <<>>]
    ELSE IF bytes[i] < 128
    THEN LET rest == decodeUtf8From(bytes, i + 1)
         IN  [rest EXCEPT !.text = <<chr(bytes[i])>> \o @]
    ELSE IF i + 2 <= Len(bytes) /\ SubSeq(bytes, i, i + 2) = <<239, 187, 191>>
    THEN LET rest == decodeUtf8From(bytes, i + 3)
         IN  [rest EXCEPT !.text = <<ZWNBSP>> \o @]
    ELSE [raised |-> TRUE, text |-> <<>>]

RECURSIVE decodeUtf16LEFrom(_, _)
\* the utf-16-le codec from byte i on: two bytes a code unit, the low byte
\* first; it leaves a mark at the start in the text as U+FEFF. A truncated
\* unit raises, and so does a surrogate, which the files of the model do not
\* hold.
decodeUtf16LEFrom(bytes, i) ==
    IF i > Len(bytes) THEN [raised |-> FALSE, text |-> <<>>]
    ELSE IF i = Len(bytes) THEN [raised |-> TRUE, text |-> <<>>]
    ELSE IF bytes[i + 1] \in 216..223 THEN [raised |-> TRUE, text |-> <<>>]
    ELSE LET rest == decodeUtf16LEFrom(bytes, i + 2)
         IN  [rest EXCEPT !.text = <<chr(bytes[i] + 256 * bytes[i + 1])>> \o @]

\* fp.read() of a file opened with the encoding; the files of the model are
\* detected as utf-8 or utf-16-le
decode(bytes, encoding) ==
    IF encoding = "utf-16-le" THEN decodeUtf16LEFrom(bytes, 1)
    ELSE decodeUtf8From(bytes, 1)

\* the bytes of a text in the encoding
encode(text, encoding) ==
    IF encoding = "utf-16-le"
    THEN Flatten([i \in 1..Len(text) |-> <<AsciiCode[text[i]], 0>>])
    ELSE [i \in 1..Len(text) |-> AsciiCode[text[i]]]

\* the files: a clause, or the clause "k" = "v";, in utf-8 with and without
\* its mark and in utf-16-le with its mark
TextFiles ==
    {me.mark \o encode(text, me.encoding) :
        text \in ClauseInputs \cup {QClause},
        me \in {[mark |-> <<>>, encoding |-> "utf-8"],
                [mark |-> <<239, 187, 191>>, encoding |-> "utf-8"],
                [mark |-> <<255, 254>>, encoding |-> "utf-16-le"]}}

InitFile ==
    /\ fileBytes \in TextFiles
    /\ enc = "none"
    /\ opened = <<>>
    /\ processed = <<>>
    /\ content = <<>>
    /\ pos = CSourceStart.pos
    /\ blockComment = CSourceStart.blockComment
    /\ yielded = CSourceStart.yielded
    /\ lastCmnt = CSourceStart.lastCmnt
    /\ tstate = "open"
    /\ CatalogInit

\* with open(filePath, 'r', encoding=enc) as fp: content = fp.read()
Decode ==
    /\ tstate = "open"
    /\ enc # "none"
    /\ content' = decode(fileBytes, enc).text
    /\ tstate' = IF decode(fileBytes, enc).raised THEN "raised" ELSE "scan"
    /\ UNCHANGED <<fileBytes, enc, opened, processed, pos, blockComment, yielded,
                   lastCmnt, catVars>>

NextFile ==
    \/ FindEncoding
    \/ Decode
    \/ AssignRaises
    \/ AssignYields
    \/ EndOfContent

SpecFile == InitFile /\ [][NextFile]_vars

-----------------------------------------------------------------------------
(* processStringsFile on one strings file: a property list of dicts nested  *)
(* at most MaxDepth deep, a text, or a property list that is not            *)
(* well-formed                                                              *)

\* the keys of a dict, in the order of the file, and the strings it holds
DictKeys == <<<<>>, <<"a">>>>
Strings == {[text |-> <<"x">>], [text |-> <<"y">>]}
NoEntry == [none |-> TRUE]

RECURSIVE Entries(_, _)
\* the dict that holds under DictKeys[i..] what the choice gives each
Entries(choice, i) ==
    IF i > Len(DictKeys) THEN <<>>
    ELSE (IF choice[i] = NoEntry THEN <<>>
          ELSE <<[key |-> DictKeys[i], val |-> choice[i]]>>)
         \o Entries(choice, i + 1)

RECURSIVE Dicts(_)
\* the dicts nested at most n deep
Dicts(n) ==
    LET vals == Strings \cup (IF n > 1 THEN {[dict |-> d] : d \in Dicts(n - 1)}
                              ELSE {})
    IN  {Entries(choice, 1) :
            choice \in [1..Len(DictKeys) -> {NoEntry} \cup vals]}

StringsFiles ==
    {Plist(d) : d \in Dicts(MaxDepth)}
    \cup {Text(t) : t \in {<<>>, QClause, EmptyKey, EmptyVal, QClause \o EmptyKey}}
    \cup {Malformed}

InitStringsFile ==
    /\ opened \in StringsFiles
    /\ processed = <<>>
    /\ fileBytes = <<>>
    /\ enc = "none"
    /\ content = <<>>
    /\ pos = CSourceStart.pos
    /\ blockComment = CSourceStart.blockComment
    /\ yielded = CSourceStart.yielded
    /\ lastCmnt = CSourceStart.lastCmnt
    /\ tstate = "open"
    /\ CatalogInit

Process ==
    /\ processed = <<>>
    /\ processed' = processOpened(opened)
    /\ tstate' = IF processOpened(opened).raised THEN "raised" ELSE "done"
    /\ UNCHANGED <<fileBytes, enc, opened, content, pos, blockComment, yielded,
                   lastCmnt, catVars>>

\* plistlib.load returns, and the pairs of parseStringsFileXML are yielded
LoadPlist ==
    /\ opened.kind = "plist"
    /\ Process

\* plistlib.load raises another exception than InvalidFileException
LoadRaises ==
    /\ opened.kind = "malformed"
    /\ Process

\* except plistlib.InvalidFileException: pass, and parseStringsFileCSource
FallBack ==
    /\ opened.kind = "text"
    /\ Process

NextStringsFile ==
    \/ LoadPlist
    \/ LoadRaises
    \/ FallBack

SpecStringsFile == InitStringsFile /\ [][NextStringsFile]_vars

-----------------------------------------------------------------------------
(* Claims about the catalog, checked under Spec *)

\* a File row of the catalog has the directory
Cataloged(cat, dir) == \E f \in cat.file : f.dir = dir

\* the (key, value) of the _trans rows of a file, in the order of their rowid
KeyValues(cat, fid) ==
    LET rows == SelectSeq(cat.trans, LAMBDA r : r.fid = fid)
    IN  [i \in 1..Len(rows) |-> <<rows[i].key, rows[i].value>>]

\* what the walk of the strings files of each bundle parses, and whether it
\* raises
Parsed ==
    [b \in BundleIds |->
        LET r == processResourcesFolder(EmptyCatalog, 1, ResDir(b))
        IN  [raised |-> r.raised,
             pairs |-> [i \in 1..Len(r.translations) |->
                          <<r.translations[i].key, r.translations[i].value>>]]]

\* C1: in every committed catalog no Component or Translation row belongs to
\* an absent File, and every File row is there together with all the
\* translations parsed from all the strings files of its application, none of
\* which failed to parse.
C1_IngestionAllOrNothing ==
    /\ \A c \in db.comp : \E f \in db.file : f.id = c.fid
    /\ \A i \in 1..Len(db.trans) : \E f \in db.file : f.id = db.trans[i].fid
    /\ \A f \in db.file :
        \E b \in BundleIds :
            /\ Bundles[b].dir = f.dir
            /\ ~Parsed[b].raised
            /\ KeyValues(db, f.id) = Parsed[b].pairs

\* the number of rows of each table
RowCounts(cat) ==
    <<Cardinality(cat.file), Cardinality(cat.comp), Cardinality(cat.lang),
      Len(cat.trans)>>

\* C2: an add of a target whose application already has its File row reports
\* "skip existing" for it, and an add all of whose targets are skipped leaves
\* the catalog, and so the row counts of the four tables, as they were.
C2_AddTwiceInsertsOnce ==
    [][pc' \in {"add", "raised"} =>
        /\ \A i \in 1..Len(log') :
            Cataloged(db, log'[i].dir) => log'[i].outcome = "skip existing"
        /\ (/\ Len(log') > 0
            /\ \A i \in 1..Len(log') : log'[i].outcome = "skip existing")
           => /\ RowCounts(db') = RowCounts(db)
              /\ db' = db
              /\ tx' = db]_vars

\* the second add of the first bundle, which the catalog holds with its
\* translations, was skipped
C2_Witness ==
    /\ pc = "add"
    /\ argPath = Bundles[1].dir
    /\ log = <<[outcome |-> "skip existing", path |-> Bundles[1].dir,
                dir |-> Bundles[1].dir, fid |-> 1]>>
    /\ KeyValues(db, 1) = Parsed[1].pairs
    /\ Len(db.trans) = 2

\* the application at the directory has exactly one locale directory
OneLocale(dir) ==
    \E b \in BundleIds : Bundles[b].dir = dir /\ Len(Bundles[b].locales) = 1

\* C3: a target with exactly one locale directory is ignored, no File row of
\* it is in the catalog afterwards, committed or not, and an add of that
\* target alone leaves every table as it was: no Translation, File, Component
\* or Language row of that ingestion survives.
C3_SingleLanguageRolledBack ==
    [][pc' \in {"add", "raised"} =>
        \A i \in 1..Len(log') :
            OneLocale(log'[i].dir) =>
                /\ log'[i].outcome = "ignored"
                /\ ~Cataloged(db', log'[i].dir)
                /\ ~Cataloged(tx', log'[i].dir)
                /\ Len(log') = 1 => (db' = db /\ tx' = db)]_vars

\* the one-locale bundle was added to the empty catalog, which stays empty:
\* not even the Language row of its locale is left
C3_Witness ==
    /\ pc = "add"
    /\ Len(log) = 1
    /\ log[1].outcome = "ignored"
    /\ OneLocale(log[1].dir)
    /\ db = EmptyCatalog
    /\ tx = EmptyCatalog

\* the ids of the files the delete command has deleted
DeletedIds(yields) == {yields[i].fid : i \in 1..Len(yields)}

\* C4: a delete by id deletes the file with that id and no other; when the
\* delete command commits, exactly the File rows with the deleted ids, the
\* Component rows and the Translation rows with those file ids are gone, all
\* other rows and every Language row are as before, the count reported is the
\* number of Translation rows removed, and info for a deleted id finds no file.
C4_DeleteByIdCascades ==
    [][/\ (pc' = "delete" /\ isdigit(argPath')) =>
            DeletedIds(SubSeq(log', Len(log) + 1, Len(log')))
                = {f.id : f \in {r \in tx.file : r.id = ToInt(argPath')}}
       /\ (cmd = "delete" /\ pc' = "done" /\ answer' # "no") =>
            /\ db'.file = {r \in db.file : r.id \notin DeletedIds(log)}
            /\ db'.comp = {r \in db.comp : r.fid \notin DeletedIds(log)}
            /\ db'.trans = SelectSeq(db.trans,
                                     LAMBDA r : r.fid \notin DeletedIds(log))
            /\ db'.lang = db.lang
            /\ Del = Len(db.trans) - Len(db'.trans)
            /\ \A id \in DeletedIds(log) :
                apiInfo(db', id, FALSE).file = <<>>]_vars

\* file 1 was deleted by its id and the deletion confirmed: its translations
\* are gone, file 2 is still there with its own
C4_Witness ==
    /\ pc = "done"
    /\ cmd = "delete"
    /\ answer = "yes"
    /\ argPath = <<"1">>
    /\ Len(log) = 1
    /\ log[1].fid = 1
    /\ Del = 2
    /\ fetchFile(db, 1) = <<>>
    /\ fetchFile(db, 2) # <<>>
    /\ Len(KeyValues(db, 2)) > 0
    /\ db.lang # {}

\* C5: the stored catalog does not change while a delete command stages its
\* deletions and asks, and when the user declines, the stored catalog and the
\* catalog the connection sees are the stored catalog of before.
C5_DeclinedDeleteRollsBack ==
    [][/\ pc' \in {"delete", "ask"} => db' = db
       /\ (pc = "ask" /\ answer' = "no") => (db' = db /\ tx' = db)]_vars

\* the deletion of a file with translations was staged and declined: the file
\* and its translations are in the stored catalog
C5_Witness ==
    /\ pc = "done"
    /\ cmd = "delete"
    /\ answer = "no"
    /\ Len(log) > 0
    /\ Del > 0
    /\ \A i \in 1..Len(log) : fetchFile(db, log[i].fid) # <<>>
    /\ \E i \in 1..Len(log) : Len(KeyValues(db, log[i].fid)) = log[i].changes
                              /\ log[i].changes > 0
    /\ tx = db

\* C6: a delete by path deletes exactly the files whose dir is the absolute
\* path, and with --recursive exactly those whose dir starts with it.
C6_DeleteByPathSelectsByDirectory ==
    [][(pc' = "delete" /\ ~isdigit(argPath')) =>
        DeletedIds(SubSeq(log', Len(log) + 1, Len(log')))
            = {f.id : f \in {r \in tx.file :
                                IF argsRecursive'
                                THEN startswith(r.dir, abspath(argPath'))
                                ELSE r.dir = abspath(argPath')}}]_vars

\* C7: an add of the bundle with en.lproj and de.lproj, each with
\* Tooltips.strings and one entry for key1, commits one File row, one
\* Component row, one Translation row per parsed pair, and leaves one
\* Language row per locale; into the empty catalog that is 1, 1, 2 and 2
\* rows. Export of that component and key1 is (de, B), (en, A).
C7_AddThenExport ==
    [][(/\ pc' = "add"
        /\ Len(log') = 1
        /\ log'[1].outcome = "added"
        /\ log'[1].dir = Bundles[1].dir) =>
        LET comps == {c \in db'.comp : c.fid = log'[1].fid}
        IN  /\ db'.file = db.file \cup {[id |-> log'[1].fid,
                                         name |-> basename(Bundles[1].dir),
                                         dir |-> Bundles[1].dir]}
            /\ Cardinality(db'.file) = Cardinality(db.file) + 1
            /\ db'.comp = db.comp \cup comps
            /\ Cardinality(comps) = 1
            /\ Cardinality(db'.comp) = Cardinality(db.comp) + 1
            /\ \A l \in {en, de} :
                Cardinality({r \in db'.lang : r.name = l}) = 1
            /\ KeyValues(db', log'[1].fid) = <<<<key1, <<"A">>>>,
                                               <<key1, <<"B">>>>>>
            /\ Len(db'.trans) = Len(db.trans) + 2
            /\ db = EmptyCatalog =>
                RowCounts(db') = <<1, 1, 2, 2>>
            /\ \A c \in comps :
                apiExport(db', c.id, key1) = <<<<de, <<"B">>>>,
                                               <<en, <<"A">>>>>>]_vars

\* the bundle was added to the empty catalog, and the export command for
\* component 1 and key1 returned (de, B), (en, A)
C7_Witness ==
    /\ pc = "done"
    /\ cmd = "export"
    /\ RowCounts(db) = <<1, 1, 2, 2>>
    /\ Cataloged(db, Bundles[1].dir)
    /\ result = [id |-> 1, key |-> key1,
                 rows |-> <<<<de, <<"B">>>>, <<en, <<"A">>>>>>]

-----------------------------------------------------------------------------
(* Claims about the tokenizer, checked under SpecCSource *)

\* the match of the yielded pair y covers a character of a block comment
InBlockComment(y) ==
    LET lex == Lex(content)
    IN  \E j \in y.start..y.end : lex[j] = "block"

ClauseAt(s, i) ==
    /\ i + Len(QClause) - 1 <= Len(s)
    /\ SubSeq(s, i, i + Len(QClause) - 1) = QClause

RECURSIVE LineStart(_, _)
\* the index at which the line of index i begins
LineStart(s, i) ==
    IF i <= 1 THEN 1
    ELSE IF s[i - 1] = "\n" THEN i
    ELSE LineStart(s, i - 1)

\* the line on which the match of y starts begins with a line comment
OnCommentLine(y) ==
    LET b == LineStart(content, y.start)
    IN  TwoAt(content, b, <<"/", "/">>) /\ Lex(content)[b] = "line"

\* C9: Line comments are discarded whole. For every C-source-style input, no
\* pair is yielded from a line that begins with the line comment marker, however
\* many clauses the line holds.
C9_LineCommentDiscardedWhole ==
    \A i \in 1..Len(yielded) : ~OnCommentLine(yielded[i])

\* C10: An empty key or value does not raise. For every input, also one with a
\* clause whose key or value is empty after trimming, the parser ends without
\* an IndexError.
C10_EmptyKeyOrValueDoesNotRaise == tstate # "raised"

-----------------------------------------------------------------------------
(* Claims about one clause, checked under SpecClause *)

\* the text of content before its first "=", and between it and the ";"
RawKey(s) == SubSeq(s, 1, (CHOOSE i \in 1..Len(s) : s[i] = "=") - 1)
RawVal(s) == SubSeq(s, (CHOOSE i \in 1..Len(s) : s[i] = "=") + 1, Len(s) - 1)

\* x trimmed, and without its outer quotes if it opens and closes with the
\* same quote character
WithoutOuterPair(x) ==
    LET t == strip(x)
    IN  IF Len(t) >= 2 /\ t[1] = t[Len(t)] /\ t[1] \in {"\"", "'"}
        THEN SubSeq(t, 2, Len(t) - 1)
        ELSE t

\* C11: the key and the value of a yielded pair are the trimmed key and value
\* of the clause, without their outer pair of matching quotes if they have
\* one and unchanged if they have none.
C11_QuoteStrippingSymmetric ==
    \A i \in 1..Len(yielded) :
        /\ yielded[i].key = WithoutOuterPair(RawKey(content))
        /\ yielded[i].val = WithoutOuterPair(RawVal(content))

-----------------------------------------------------------------------------
(* Claims about findFileEncoding, checked under SpecEncoding *)

Encodings == {"utf-32-be", "utf-32-le", "utf-16-be", "utf-16-le", "utf-8"}

\* the byte-order mark of each encoding
MarkOf(e) ==
    CASE e = "utf-32-be" -> <<0, 0, 254, 255>>
      [] e = "utf-32-le" -> <<255, 254, 0, 0>>
      [] e = "utf-16-be" -> <<254, 255>>
      [] e = "utf-16-le" -> <<255, 254>>
      [] e = "utf-8"     -> <<239, 187, 191>>

\* the encodings whose mark the header starts with
Marked(header) == {e \in Encodings : startswith(header, MarkOf(e))}

\* C12: findFileEncoding returns one of the five encodings: utf-8 when the
\* header starts with no mark, else the encoding whose mark is the longest
\* of the marks the header starts with.
C12_LongestMarkWins ==
    enc # "none" =>
        /\ enc \in Encodings
        /\ Marked(Header(fileBytes)) = {} => enc = "utf-8"
        /\ Marked(Header(fileBytes)) # {} =>
            /\ enc \in Marked(Header(fileBytes))
            /\ \A e \in Marked(Header(fileBytes)) :
                Len(MarkOf(e)) <= Len(MarkOf(enc))

\* a header with the UTF-16-LE mark that is not the UTF-32-LE mark
C12_Witness ==
    /\ fileBytes = <<255, 254, 0, 65>>
    /\ enc = "utf-16-le"

-----------------------------------------------------------------------------
(* Claims about files with a byte-order mark, checked under SpecFile *)

\* the file is the clause "k" = "v"; after the mark of its encoding
MarkedQClause ==
    fileBytes \in {<<239, 187, 191>> \o encode(QClause, "utf-8"),
                   <<255, 254>> \o encode(QClause, "utf-16-le")}

\* C13: of a file that starts with the UTF-8 or the UTF-16-LE mark and holds
\* the clause "k" = "v"; the tokenizer yields the pair (k, v).
C13_MarkNotPartOfKey ==
    (MarkedQClause /\ tstate = "done") =>
        /\ Len(yielded) = 1
        /\ yielded[1].key = <<"k">>
        /\ yielded[1].val = <<"v">>

-----------------------------------------------------------------------------
(* Claims about processStringsFile, checked under SpecStringsFile *)

RECURSIVE DotJoined(_)
\* the keys of a path joined by dots
DotJoined(keys) ==
    IF Len(keys) = 1 THEN keys[1]
    ELSE keys[1] \o <<".">> \o DotJoined(Tail(keys))

RECURSIVE LeafPaths(_, _)
\* (dot-joined key path, value) of every entry at or below the dict that is
\* not itself a dict; path is the keys that lead to the dict
LeafPaths(dict, path) ==
    UNION {IF "dict" \in DOMAIN dict[i].val
           THEN LeafPaths(dict[i].val.dict, Append(path, dict[i].key))
           ELSE {<<DotJoined(Append(path, dict[i].key)), dict[i].val.text>>} :
           i \in 1..Len(dict)}

\* C14: what the structured parser yields of a property list is, as a set,
\* the dot-joined key path and the value of every entry that is not a dict.
C14_FlatteningExact ==
    (processed # <<>> /\ opened.kind = "plist") =>
        {processed.pairs[i] : i \in 1..Len(processed.pairs)}
            = LeafPaths(opened.plist, <<>>)

\* C20: processStringsFile runs the tokenizer only on a file that plistlib
\* does not recognize as a property list; a property list that fails to load
\* otherwise raises, and so does a text on which the tokenizer raises; a
\* property list that loads yields the pairs of the structured parser only,
\* without a run of the tokenizer.
C20_FallbackSelective ==
    processed # <<>> =>
        /\ processed.tokenizer <=> opened.kind = "text"
        /\ opened.kind = "malformed" => processed.raised
        /\ opened.kind = "text" =>
              (parseStringsFileCSource(opened.text).raised => processed.raised)
        /\ opened.kind = "plist" =>
              /\ ~processed.raised
              /\ processed.pairs = parseStringsFileXML(opened.plist, <<>>)

\* a text whose first clause is yielded and whose second makes the tokenizer
\* raise: processStringsFile has raised
C20_Witness ==
    /\ processed # <<>>
    /\ opened.kind = "text"
    /\ processed.tokenizer
    /\ processed.pairs # <<>>
    /\ processed.raised

-----------------------------------------------------------------------------
(* Claims about the queries of the catalog, checked under Spec *)

\* the (cid, key) of the Translation rows of a file
TitlesOf(cat, f_id) ==
    {<<cat.trans[i].cid, cat.trans[i].key>> :
        i \in {j \in 1..Len(cat.trans) : cat.trans[j].fid = f_id}}

\* C15: list titles returns every (componentId, key) of the Translation rows
\* of the file, each once, in ascending order of the key without regard to
\* case; two components that hold one key are both returned.
C15_ListTitlesEveryPair ==
    (cmd = "list" /\ pc = "done") =>
        /\ {result.titles[i] : i \in 1..Len(result.titles)}
              = TitlesOf(db, result.id)
        /\ Len(result.titles) = Cardinality(TitlesOf(db, result.id))
        /\ \A i \in 1..Len(result.titles) - 1 :
              ~LessNoCase(result.titles[i + 1][2], result.titles[i][2])

\* C16: a query by an id that matches no row returns an empty or none result
\* and never raises; here info by file id and info by component id.
C16_NotFoundNeverRaises ==
    (cmd = "info" /\ pc = "done") =>
        LET rows == IF result.isComponent THEN {r \in db.comp : r.id = result.id}
                    ELSE {r \in db.file : r.id = result.id}
        IN  rows = {} => (~result.info.raised /\ result.info.file = <<>>)

-----------------------------------------------------------------------------
(* Claims about the targets of one add, checked under Spec *)

\* the outcomes of insertResourceIntoDB that skip the target
Skipped == {"no resources", "skip existing", "ignored"}

\* the connection after apiAdd has processed the first n of its targets
AddedBy(conn, targets, n) ==
    addEach([db |-> conn.db, tx |-> conn.tx, log |-> <<>>, raised |-> FALSE],
            SubSeq(targets, 1, n), 1)

\* C17: a target of add that is skipped (no Resources, already cataloged,
\* nothing parsed or fewer than two languages) leaves the committed catalog
\* and the catalog of the connection as they were before it, with nothing
\* uncommitted, and add goes on with the next target: unless a target raises
\* every target is processed.
C17_SkipsIsolated ==
    [][(cmd' = "add" /\ pc' \in {"add", "raised"}) =>
        LET conn    == [db |-> db, tx |-> IF pc = "idle" THEN db ELSE tx]
            targets == enumerateResourcePaths(argPath', argsRecursive')
        IN  /\ pc' = "add" => Len(log') = Len(targets)
            /\ pc' = "raised" => log'[Len(log')].outcome = "raised"
            /\ \A i \in 1..Len(log') :
                  log'[i].outcome \in Skipped =>
                     /\ AddedBy(conn, targets, i).db
                           = AddedBy(conn, targets, i - 1).db
                     /\ AddedBy(conn, targets, i).tx
                           = AddedBy(conn, targets, i - 1).tx
                     /\ AddedBy(conn, targets, i).tx
                           = AddedBy(conn, targets, i).db
            /\ db' = AddedBy(conn, targets, Len(log')).db
            /\ tx' = AddedBy(conn, targets, Len(log')).tx]_vars

\* add has rolled back a target with fewer than two languages while the
\* catalog holds committed rows
C17_Witness ==
    /\ cmd = "add"
    /\ pc = "add"
    /\ log # <<>>
    /\ log[Len(log)].outcome = "ignored"
    /\ db.file # {}
    /\ tx = db

-----------------------------------------------------------------------------
(* Claims about the rows of the catalog, checked under Spec *)

\* the columns by which insertFile, insertComponent and insertLang find
KeyColumns == [file |-> {"name", "dir"}, comp |-> {"fid", "name"},
               lang |-> {"name"}]

\* the key of a row of the table
KeyOf(table, r) == [c \in KeyColumns[table] |-> r[c]]

\* no two rows of the table share their key
UniqueKeys(cat, table) ==
    \A r, q \in cat[table] : KeyOf(table, r) = KeyOf(table, q) => r = q

\* the keys that rows of the committed catalog or of the connection have,
\* and one that none has
KeysToFind(table) ==
    {KeyOf(table, r) : r \in db[table] \cup tx[table]}
    \cup {KeyOf(table, [name |-> <<"z">>, dir |-> <<"/", "z">>, fid |-> 9])}

\* insertOrReturnRowID finds the row with the key, or inserts it
FindsOrInserts(cat, table, vals) ==
    LET r     == insertOrReturnRowID(cat, table, vals)
        found == {q \in cat[table] : KeyOf(table, q) = vals}
    IN  IF found # {}
        THEN r.existing /\ r.cat = cat /\ r.id \in {q.id : q \in found}
        ELSE /\ ~r.existing
             /\ r.id \notin {q.id : q \in cat[table]}
             /\ r.cat = [cat EXCEPT ![table] = @ \cup {[id |-> r.id] @@ vals}]

\* C18: in the committed catalog and in the catalog of the connection no two
\* File rows share (name, dir), no two Component rows (fid, name), no two
\* Language rows their name; find-or-insert returns the id of the row with
\* the key and the flag true, or inserts one row and returns its id and the
\* flag false.
C18_FindOrInsertUnique ==
    \A table \in {"file", "comp", "lang"} :
        \A cat \in {db, tx} :
            /\ UniqueKeys(cat, table)
            /\ \A vals \in KeysToFind(table) : FindsOrInserts(cat, table, vals)

\* two applications are cataloged that share a language: insertLang has
\* found the row of the language for the second
C18_Witness ==
    /\ Cardinality(db.file) = 2
    /\ \E i, j \in 1..Len(db.trans) :
          /\ db.trans[i].fid # db.trans[j].fid
          /\ db.trans[i].lid = db.trans[j].lid

\* C19: in every committed catalog each Translation row's cid is the id of a
\* Component row whose fid is the Translation's fid, its fid the id of a File
\* row, and its lid the id of a Language row.
C19_TranslationsConsistent ==
    \A i \in 1..Len(db.trans) :
        /\ \E c \in db.comp : c.id = db.trans[i].cid /\ c.fid = db.trans[i].fid
        /\ \E f \in db.file : f.id = db.trans[i].fid
        /\ \E l \in db.lang : l.id = db.trans[i].lid

\* a delete has been confirmed and committed, and the catalog still holds
\* the Translation rows of another application
C19_Witness ==
    /\ cmd = "delete"
    /\ pc = "done"
    /\ answer = "yes"
    /\ Del > 0
    /\ db.trans # <<>>

-----------------------------------------------------------------------------
(* Claims about the paths given to add, checked under Spec *)

\* the application root of a bundle, its Contents and its Resources directory
PathForms(b) == {Bundles[b].dir, join(Bundles[b].dir, Contents), ResDir(b)}

\* C21: a target of add that is the application root of a bundle, its
\* Contents or its Contents/Resources directory resolves to the Resources
\* directory and to the application root of the bundle, whose basename is
\* neither Contents nor Resources, and the File row found or inserted for it
\* is the one of (basename of the root, root); a target under which no
\* Resources directory exists is reported as having no resources and leaves
\* the committed catalog and the catalog of the connection as they were.
C21_PathFormsResolve ==
    [][(cmd' = "add" /\ pc' \in {"add", "raised"}) =>
        LET conn    == [db |-> db, tx |-> IF pc = "idle" THEN db ELSE tx]
            targets == enumerateResourcePaths(argPath', argsRecursive')
        IN  \A i \in 1..Len(log') :
              /\ log'[i].path = targets[i]
              /\ \A b \in BundleIds :
                    targets[i] \in PathForms(b) =>
                       /\ resourcesPathForPath(targets[i]) = ResDir(b)
                       /\ log'[i].outcome # "no resources"
                       /\ log'[i].dir = Bundles[b].dir
                       /\ basename(log'[i].dir) \notin {Contents, Resources}
                       /\ \A r \in AddedBy(conn, targets, i).tx.file :
                             r.id = log'[i].fid =>
                                /\ r.dir = Bundles[b].dir
                                /\ r.name = basename(Bundles[b].dir)
                       /\ \A r \in AddedBy(conn, targets, i).tx.file :
                             r.dir = Bundles[b].dir => r.id = log'[i].fid
              /\ (\A b \in BundleIds : targets[i] \notin PathForms(b)) =>
                       /\ log'[i].outcome = "no resources"
                       /\ AddedBy(conn, targets, i).db
                             = AddedBy(conn, targets, i - 1).db
                       /\ AddedBy(conn, targets, i).tx
                             = AddedBy(conn, targets, i - 1).tx]_vars

\* add was given the Contents/Resources directory of a bundle and has
\* cataloged the application under its root
C21_Witness ==
    /\ cmd = "add"
    /\ log # <<>>
    /\ log[1].path = ResDir(1)
    /\ log[1].outcome = "added"
    /\ \E r \in db.file : r.id = log[1].fid /\ r.dir = Bundles[1].dir

-----------------------------------------------------------------------------
(* Claims about the confirmation of delete, checked under Spec *)

\* C22: when the delete command ends without the answer yes, the "Nothing
\* to do." return included, the committed catalog after the exit of the
\* process is the one before the command, which the committed catalog has
\* been throughout the command.
C22_NoDeleteWithoutConfirmation ==
    [][(cmd = "delete" /\ pc \in {"delete", "ask"} /\ pc' = "done"
        /\ answer' # "yes") => db' = db]_vars

-----------------------------------------------------------------------------
(* Claims about the languages of a cataloged application, checked under Spec *)

\* the languages in which the file has Translation rows
LanguagesOf(cat, f_id) ==
    {cat.trans[i].lid : i \in {j \in 1..Len(cat.trans) : cat.trans[j].fid = f_id}}

\* C23: in every committed catalog each File row has Translation rows in at
\* least two languages.
C23_EveryFileMultiLanguage ==
    \A f \in db.file : Cardinality(LanguagesOf(db, f.id)) >= 2

-----------------------------------------------------------------------------
(* Claims about the clauses the tokenizer keeps, checked under SpecCSource *)

\* the indices at which a clause "k" = "v"; stands outside every comment
LiveClauses(s) ==
    {i \in 1..Len(s) : ClauseAt(s, i) /\ Lex(s)[i] = "code"}

\* C24: when the tokenizer has read a C-source-style input to its end, every
\* clause "k" = "v"; that stands outside all block comments and line
\* comments has been yielded as (k, v) by exactly one match; a clause after
\* a closed block comment on the same line is one of them.
C24_NoLiveAssignmentLost ==
    tstate = "done" =>
        \A i \in LiveClauses(content) :
            Cardinality({j \in 1..Len(yielded) :
                           /\ yielded[j].start <= i
                           /\ i <= yielded[j].end
                           /\ yielded[j].key = <<"k">>
                           /\ yielded[j].val = <<"v">>}) = 1

====
